---- MODULE Spec2Model ----
(***************************************************************************)
(* A model of the STUSB4500 driver (src/stusb4500.py): the NVM access      *)
(* protocol (read_parameters, write_parameters, write_parameter_defaults)  *)
(* run one bus transaction at a time against simulated devices, and the    *)
(* parameter codec (getters and setters) computed as Python does, in       *)
(* IEEE-754 binary64 arithmetic.                                           *)
(***************************************************************************)
EXTENDS Integers, Sequences, FiniteSets

(***************************************************************************)
(* Arbitrary-precision naturals.  TLC's integers are 32 bits wide and a    *)
(* binary64 significand has 53, so a natural is a sequence of limbs in     *)
(* base 2^15, least significant first, without leading zero limbs.         *)
(***************************************************************************)
LimbBase == 32768

RECURSIVE BigNorm(_)
BigNorm(a) ==
  IF a = <<>> THEN <<>>
  ELSE IF a[Len(a)] = 0 THEN BigNorm(SubSeq(a, 1, Len(a) - 1))
  ELSE a

RECURSIVE BigFromInt(_)
BigFromInt(n) ==
  IF n = 0 THEN <<>> ELSE <<n % LimbBase>> \o BigFromInt(n \div LimbBase)

RECURSIVE BigToInt(_)
BigToInt(a) ==
  IF a = <<>> THEN 0 ELSE a[1] + LimbBase * BigToInt(Tail(a))

BigLimb(a, i) == IF i <= Len(a) THEN a[i] ELSE 0

Max(x, y) == IF x >= y THEN x ELSE y

Min(x, y) == IF x <= y THEN x ELSE y

\* -1, 0 or 1 as a < b, a = b or a > b, comparing from limb i downwards.
RECURSIVE BigCmpFrom(_, _, _)
BigCmpFrom(a, b, i) ==
  IF i = 0 THEN 0
  ELSE IF BigLimb(a, i) < BigLimb(b, i) THEN -1
  ELSE IF BigLimb(a, i) > BigLimb(b, i) THEN 1
  ELSE BigCmpFrom(a, b, i - 1)

BigCmp(a, b) == BigCmpFrom(a, b, Max(Len(a), Len(b)))

RECURSIVE BigAddFrom(_, _, _, _)
BigAddFrom(a, b, i, carry) ==
  IF i > Len(a) /\ i > Len(b)
  THEN (IF carry = 0 THEN <<>> ELSE <<carry>>)
  ELSE LET s == BigLimb(a, i) + BigLimb(b, i) + carry
       IN  <<s % LimbBase>> \o BigAddFrom(a, b, i + 1, s \div LimbBase)

BigAdd(a, b) == BigAddFrom(a, b, 1, 0)

\* a - b, for a >= b.
RECURSIVE BigSubFrom(_, _, _, _)
BigSubFrom(a, b, i, borrow) ==
  IF i > Len(a) THEN <<>>
  ELSE LET d == BigLimb(a, i) - BigLimb(b, i) - borrow
       IN  IF d < 0
           THEN <<d + LimbBase>> \o BigSubFrom(a, b, i + 1, 1)
           ELSE <<d>> \o BigSubFrom(a, b, i + 1, 0)

BigSub(a, b) == BigNorm(BigSubFrom(a, b, 1, 0))

\* a * s, for a small s (0 <= s < 2^15).
RECURSIVE BigMulSmallFrom(_, _, _, _)
BigMulSmallFrom(a, s, i, carry) ==
  IF i > Len(a)
  THEN BigFromInt(carry)
  ELSE LET p == a[i] * s + carry
       IN  <<p % LimbBase>> \o BigMulSmallFrom(a, s, i + 1, p \div LimbBase)

BigMulSmall(a, s) == BigNorm(BigMulSmallFrom(a, s, 1, 0))

BigIsOdd(a) == a # <<>> /\ a[1] % 2 = 1

RECURSIVE Pow2(_)
Pow2(k) == IF k = 0 THEN 1 ELSE 2 * Pow2(k - 1)

\* a \div s, for a small s (0 < s < 2^15), from limb i downwards.
RECURSIVE BigDivSmallFrom(_, _, _, _)
BigDivSmallFrom(a, s, i, rem) ==
  IF i = 0 THEN <<>>
  ELSE LET cur == rem * LimbBase + a[i]
       IN  BigDivSmallFrom(a, s, i - 1, cur % s) \o <<cur \div s>>

BigDivSmall(a, s) == BigNorm(BigDivSmallFrom(a, s, Len(a), 0))

\* a * 2^n: whole limbs first, then the bits left over.
BigShl(a, n) ==
  IF a = <<>> THEN <<>>
  ELSE [i \in 1..(n \div 15) |-> 0] \o BigMulSmall(a, Pow2(n % 15))

\* a \div 2^n.
BigShr(a, n) ==
  IF n \div 15 >= Len(a) THEN <<>>
  ELSE BigDivSmall(SubSeq(a, n \div 15 + 1, Len(a)), Pow2(n % 15))

RECURSIVE IntBits(_)
IntBits(n) == IF n = 0 THEN 0 ELSE 1 + IntBits(n \div 2)

\* The number of significant bits of a.
BigBits(a) ==
  IF a = <<>> THEN 0 ELSE 15 * (Len(a) - 1) + IntBits(a[Len(a)])

BigOne == <<1>>

(***************************************************************************)
(* Python floats: IEEE-754 binary64, round to nearest, ties to even.  A    *)
(* float is <<m, e>>, the number m * 2^e with m a natural of exactly 53    *)
(* bits, or <<<<>>, 0>> for 0.0.  The driver's numbers are non-negative    *)
(* and far from the overflow and subnormal ranges, so sign, infinities and *)
(* subnormals are left out.                                                *)
(***************************************************************************)
FZero == <<<<>>, 0>>

\* The float nearest to p * 2^e (p a natural of any width).
Round53(p, e) ==
  LET n == BigBits(p)
  IN  IF n = 0 THEN FZero
      ELSE IF n <= 53 THEN <<BigShl(p, 53 - n), e - (53 - n)>>
      ELSE LET s    == n - 53
               q    == BigShr(p, s)
               r    == BigSub(p, BigShl(q, s))
               c    == BigCmp(r, BigShl(BigOne, s - 1))
               up   == c = 1 \/ (c = 0 /\ BigIsOdd(q))
               q2   == IF up THEN BigAdd(q, BigOne) ELSE q
           IN  IF BigBits(q2) = 54
               THEN <<BigShr(q2, 1), e + s + 1>>
               ELSE <<q2, e + s>>

\* float(n) for an int n, exact for the driver's small ints.
FFromInt(n) == Round53(BigFromInt(n), 0)

\* n more quotient limbs of r / d by long division (Knuth's algorithm D),
\* for r < d and d of exactly four limbs with its top limb >= 2^14, so that
\* the digit estimated from the top limbs is the digit or up to 2 above it:
\* <<quotient, remainder>>, the quotient being floor(r * 2^(15n) / d).
RECURSIVE DivLimbs(_, _, _)
DivLimbs(r, d, n) ==
  IF n = 0 THEN <<<<>>, r>>
  ELSE LET prev  == DivLimbs(r, d, n - 1)
           rr    == IF prev[2] = <<>> THEN <<>> ELSE <<0>> \o prev[2]
           est   == Min(LimbBase - 1,
                        (BigLimb(rr, 5) * LimbBase + BigLimb(rr, 4)) \div d[4])
           digit == CHOOSE k \in Max(0, est - 2)..est :
                      /\ BigCmp(BigMulSmall(d, k), rr) <= 0
                      /\ BigCmp(BigMulSmall(d, k + 1), rr) > 0
       IN  <<BigNorm(<<digit>> \o prev[1]), BigSub(rr, BigMulSmall(d, digit))>>

\* x / y: with 53-bit significands mx < 2 * my, the quotient
\* floor(mx * 2^59 / my) has 59 or 60 bits; it is rounded once, with a sticky
\* bit for a non-zero remainder.  (y is never 0.0 here: Python would raise.)
FDiv(x, y) ==
  IF x[1] = <<>> THEN FZero
  ELSE LET qr     == DivLimbs(BigShl(x[1], 6), BigShl(y[1], 7), 4)
           sticky == IF qr[2] = <<>> THEN <<>> ELSE BigOne
       IN  Round53(BigAdd(BigAdd(qr[1], qr[1]), sticky), x[2] - y[2] - 60)

\* n * y for an int 0 <= n < 2^15: the exact product, rounded once.
FMulInt(n, y) == Round53(BigMulSmall(y[1], n), y[2])

FAdd(x, y) ==
  IF x[1] = <<>> THEN y
  ELSE IF y[1] = <<>> THEN x
  ELSE LET e == Min(x[2], y[2])
       IN  Round53(BigAdd(BigShl(x[1], x[2] - e), BigShl(y[1], y[2] - e)), e)

\* -1, 0 or 1 as x < y, x = y or x > y.
FCmp(x, y) ==
  IF x[1] = <<>> THEN (IF y[1] = <<>> THEN 0 ELSE -1)
  ELSE IF y[1] = <<>> THEN 1
  ELSE LET e == Min(x[2], y[2])
       IN  BigCmp(BigShl(x[1], x[2] - e), BigShl(y[1], y[2] - e))

\* x - y, for x >= y.
FSub(x, y) ==
  IF y[1] = <<>> THEN x
  ELSE LET e == Min(x[2], y[2])
       IN  Round53(BigSub(BigShl(x[1], x[2] - e), BigShl(y[1], y[2] - e)), e)

\* int(x): truncation towards zero.
FTrunc(x) ==
  IF x[1] = <<>> THEN 0
  ELSE IF x[2] >= 0 THEN BigToInt(BigShl(x[1], x[2]))
  ELSE BigToInt(BigShr(x[1], -x[2]))

\* The float a decimal literal num/den denotes (the nearest to the quotient).
FLit(num, den) == FDiv(FFromInt(num), FFromInt(den))

(***************************************************************************)
(* Python's integer operators on the driver's small non-negative ints.     *)
(***************************************************************************)
RECURSIVE BitAnd(_, _)
BitAnd(a, b) ==
  IF a = 0 \/ b = 0 THEN 0
  ELSE (a % 2) * (b % 2) + 2 * BitAnd(a \div 2, b \div 2)

RECURSIVE BitOr(_, _)
BitOr(a, b) ==
  IF a = 0 THEN b
  ELSE IF b = 0 THEN a
  ELSE Max(a % 2, b % 2) + 2 * BitOr(a \div 2, b \div 2)

ShiftLeft(a, n) == a * Pow2(n)

ShiftRight(a, n) == a \div Pow2(n)

(***************************************************************************)
(* Module constants of src/stusb4500.py.                                   *)
(***************************************************************************)
DEFAULT_NVM ==
  <<  0,   0, 176, 170,   0,  69,   0,   0,
     16,  64, 156,  28, 255,   1,  60, 223,
      2,  64,  15,   0,  50,   0, 252, 241,
      0,  25,  86, 175, 245,  53,  95,   0,
      0,  75, 144,  33,  67,   0,  64, 251 >>

FTP_CUST_PASSWORD_REG == 149   \* 0x95
FTP_CUST_PASSWORD == 71        \* 0x47
FTP_CTRL_0 == 150              \* 0x96
FTP_CUST_PWR == 128            \* 0x80
FTP_CUST_RST_N == 64           \* 0x40
FTP_CUST_REQ == 16             \* 0x10
FTP_CUST_SECT == 7             \* 0x07
FTP_CTRL_1 == 151              \* 0x97
FTP_CUST_SER_MASK == 248       \* 0xF8
FTP_CUST_OPCODE_MASK == 7      \* 0x07
RW_BUFFER == 83                \* 0x53
READ == 0
WRITE_PL == 1
WRITE_SER == 2
READ_PL == 3
READ_SER == 4
ERASE_SECTOR == 5
PROG_SECTOR == 6
SOFT_PROG_SECTOR == 7
SECTOR_0 == 1
SECTOR_1 == 2
SECTOR_2 == 4
SECTOR_3 == 8
SECTOR_4 == 16

\* pdo=None, the omitted PDO argument (a value that is neither 1 nor 2).
NoPdo == -1

(***************************************************************************)
(* The parameter codec.  data is the 40-byte buffer, a sequence indexed    *)
(* from 1, so Python's data[k] is Byte(data, k).                           *)
(***************************************************************************)
Byte(data, k) == data[k + 1]

\* data[k] = v on a bytearray (v must be a byte, or Python raises).
SetByte(data, k, v) == [data EXCEPT ![k + 1] = v]

\* The float literals of the codec.
F0_2 == FLit(2, 10)
F0_05 == FLit(5, 100)
F0_25 == FLit(25, 100)
F0_5 == FLit(5, 10)
F2_5 == FLit(25, 10)

\* get_voltage reading PDO3's voltage from bytes 26 and 27.
get_voltage_TableBytes(data, pdo) ==
  IF pdo = 1 THEN FFromInt(5)
  ELSE IF pdo = 2 THEN FMulInt(Byte(data, 4 * 8 + 1), F0_2)
  ELSE FMulInt(ShiftLeft(BitAnd(Byte(data, 3 * 8 + 3), 3), 8)
               + Byte(data, 3 * 8 + 2), F0_05)

\* get_voltage without its PDO1 case: PDO1 falls through to the stored
\* PDO3 field.
get_voltage_NoFixedPdo1(data, pdo) ==
  IF pdo = 2 THEN FMulInt(Byte(data, 4 * 8 + 1), F0_2)
  ELSE FMulInt(ShiftLeft(BitAnd(Byte(data, 4 * 8 + 3), 3), 8)
               + Byte(data, 4 * 8 + 2), F0_05)

get_voltage(data, pdo) ==
  IF pdo = 1 THEN FFromInt(5)
  ELSE IF pdo = 2 THEN FMulInt(Byte(data, 4 * 8 + 1), F0_2)
  ELSE FMulInt(ShiftLeft(BitAnd(Byte(data, 4 * 8 + 3), 3), 8)
               + Byte(data, 4 * 8 + 2), F0_05)

\* set_voltage leaving the buffer alone for PDO1, whose voltage is fixed.
set_voltage_SkipsPdo1(data, voltage, pdo) ==
  LET v == IF FCmp(voltage, FFromInt(5)) < 0 THEN FFromInt(5)
           ELSE IF FCmp(voltage, FFromInt(20)) > 0 THEN FFromInt(20)
           ELSE voltage
  IN  IF pdo = 1 THEN data
      ELSE IF pdo = 2
      THEN SetByte(data, 4 * 8 + 1, FTrunc(FDiv(v, F0_2)))
      ELSE LET n  == FTrunc(FDiv(v, F0_05))
               d1 == SetByte(data, 4 * 8 + 2, BitAnd(255, n))
               d2 == SetByte(d1, 4 * 8 + 3, BitAnd(Byte(d1, 4 * 8 + 3), 252))
           IN  SetByte(d2, 4 * 8 + 3,
                       BitOr(Byte(d2, 4 * 8 + 3), ShiftRight(n, 8)))

set_voltage(data, voltage, pdo) ==
  LET v == IF FCmp(voltage, FFromInt(5)) < 0 THEN FFromInt(5)
           ELSE IF FCmp(voltage, FFromInt(20)) > 0 THEN FFromInt(20)
           ELSE voltage
  IN  IF pdo = 2
      THEN SetByte(data, 4 * 8 + 1, FTrunc(FDiv(v, F0_2)))
      ELSE LET n  == FTrunc(FDiv(v, F0_05))
               d1 == SetByte(data, 4 * 8 + 2, BitAnd(255, n))
               d2 == SetByte(d1, 4 * 8 + 3, BitAnd(Byte(d1, 4 * 8 + 3), 252))
           IN  SetByte(d2, 4 * 8 + 3,
                       BitOr(Byte(d2, 4 * 8 + 3), ShiftRight(n, 8)))

\* The 4-bit current field of a PDO, as get_current extracts it.
digital_value(data, pdo) ==
  IF pdo = 1 THEN ShiftRight(BitAnd(Byte(data, 3 * 8 + 2), 240), 4)
  ELSE IF pdo = 2 THEN BitAnd(Byte(data, 3 * 8 + 4), 15)
  ELSE ShiftRight(BitAnd(Byte(data, 3 * 8 + 5), 240), 4)

get_current(data, pdo) ==
  LET value == digital_value(data, pdo)
  IN  IF value = 0 THEN FFromInt(value)
      ELSE IF value < 11 THEN FAdd(FMulInt(value, F0_25), F0_25)
      ELSE FSub(FMulInt(value, F0_5), F2_5)

\* The 4-bit value set_current stores for a current.
CurrentNibble(current) ==
  IF FCmp(current, F0_5) < 0 THEN 0
  ELSE IF FCmp(current, FFromInt(3)) <= 0
  THEN FTrunc(FSub(FMulInt(4, current), FFromInt(1)))
  ELSE LET c == IF FCmp(current, FFromInt(5)) > 0 THEN FFromInt(5)
                ELSE current
       IN  FTrunc(FAdd(FMulInt(2, c), FFromInt(5)))

\* set_current assigning the whole byte instead of masking the field in.
set_current_WholeByte(data, current, pdo) ==
  LET n == CurrentNibble(current)
  IN  IF pdo = 1 THEN SetByte(data, 3 * 8 + 2, ShiftLeft(n, 4))
      ELSE IF pdo = 2 THEN SetByte(data, 3 * 8 + 4, n)
      ELSE SetByte(data, 3 * 8 + 5, ShiftLeft(n, 4))

set_current(data, current, pdo) ==
  LET n == CurrentNibble(current)
  IN  IF pdo = 1
      THEN LET d1 == SetByte(data, 3 * 8 + 2, BitAnd(Byte(data, 3 * 8 + 2), 15))
           IN  SetByte(d1, 3 * 8 + 2, BitOr(Byte(d1, 3 * 8 + 2), ShiftLeft(n, 4)))
      ELSE IF pdo = 2
      THEN LET d1 == SetByte(data, 3 * 8 + 4, BitAnd(Byte(data, 3 * 8 + 4), 240))
           IN  SetByte(d1, 3 * 8 + 4, BitOr(Byte(d1, 3 * 8 + 4), n))
      ELSE LET d1 == SetByte(data, 3 * 8 + 5, BitAnd(Byte(data, 3 * 8 + 5), 15))
           IN  SetByte(d1, 3 * 8 + 5, BitOr(Byte(d1, 3 * 8 + 5), ShiftLeft(n, 4)))

get_lower_voltage_limit(data, pdo) ==
  IF pdo = 1 THEN 5
  ELSE IF pdo = 2 THEN ShiftRight(Byte(data, 3 * 8 + 4), 4) + 5
  ELSE BitAnd(Byte(data, 3 * 8 + 6), 15) + 5

get_upper_voltage_limit(data, pdo) ==
  IF pdo = 1 THEN ShiftRight(Byte(data, 3 * 8 + 3), 4) + 5
  ELSE IF pdo = 2 THEN BitAnd(Byte(data, 3 * 8 + 5), 15) + 5
  ELSE ShiftRight(Byte(data, 3 * 8 + 6), 4) + 5

is_factory_defaults(data) == data = DEFAULT_NVM

(***************************************************************************)
(* The bounds of the model.                                                *)
(***************************************************************************)
\* Calls of the driver (constructors and setters included) in one behaviour.
MaxCalls == 4
\* Setter calls among them.
MaxOps == 2

\* The driver instances: two devices, at two addresses, on one bus.
Insts == {"A", "B"}

\* A second NVM image, every sector of which differs from the default's.
AltNvm == [k \in 1..40 |-> (37 * k + 11) % 256]

\* What each device's NVM may hold when the program starts.
InitNvm == [A |-> {AltNvm}, B |-> {DEFAULT_NVM}]

\* The arguments the setters are called with in the protocol model:
\* hundredths of a volt or of an amp (900 is the literal 9.0), and PDOs.
SpecVoltages == {900}
SpecCurrents == {150}
SpecPdos == {1, 2}

VARIABLES
  sectors_data,  \* the class attribute STUSB4500.sectors_data (one bytearray)
  constructed,   \* the instances whose __init__ has returned
  dev,           \* each instance's device: registers and NVM
  lock,          \* the bus lock: "free" or the instance holding it
  call,          \* the top-level call in progress, or the last one
  log,           \* the bus transactions of that call, in order
  last,          \* the last setter call, with the buffer before it
  fresh,         \* the call that returned last, with no setter call since
  counts         \* calls, failures and setter calls so far

vars == <<sectors_data, constructed, dev, lock, call, log, last, fresh, counts>>

(***************************************************************************)
(* The simulated device.  A write stores bytes in consecutive registers.   *)
(* A write to control register 0 with the request bit set starts the       *)
(* operation named by the opcode field of control register 1; when the     *)
(* NVM controller finishes it, it clears the request bit.                  *)
(***************************************************************************)
Zeros(n) == [k \in 1..n |-> 0]

Sector(nvm, i) == SubSeq(nvm, i * 8 + 1, i * 8 + 8)

DevInit(nvm) ==
  [password |-> 0, ctrl0 |-> 0, ctrl1 |-> 0, buffer |-> Zeros(8),
   pl |-> Zeros(8), ser |-> 0, nvm |-> nvm]

DevStore(d, reg, byte) ==
  IF reg >= RW_BUFFER /\ reg < RW_BUFFER + 8
  THEN [d EXCEPT !.buffer[reg - RW_BUFFER + 1] = byte]
  ELSE IF reg = FTP_CUST_PASSWORD_REG THEN [d EXCEPT !.password = byte]
  ELSE IF reg = FTP_CTRL_0 THEN [d EXCEPT !.ctrl0 = byte]
  ELSE IF reg = FTP_CTRL_1 THEN [d EXCEPT !.ctrl1 = byte]
  ELSE d

RECURSIVE DevWrite(_, _, _)
DevWrite(d, reg, data) ==
  IF data = <<>> THEN d
  ELSE DevWrite(DevStore(d, reg, Head(data)), reg + 1, Tail(data))

DevLoad(d, reg) ==
  IF reg >= RW_BUFFER /\ reg < RW_BUFFER + 8 THEN d.buffer[reg - RW_BUFFER + 1]
  ELSE IF reg = FTP_CUST_PASSWORD_REG THEN d.password
  ELSE IF reg = FTP_CTRL_0 THEN d.ctrl0
  ELSE IF reg = FTP_CTRL_1 THEN d.ctrl1
  ELSE 0

DevRead(d, reg, n) == [k \in 1..n |-> DevLoad(d, reg + k - 1)]

HasBit(byte, mask) == BitAnd(byte, mask) # 0

\* The NVM with the sectors of the erase mask ser cleared.
Erased(nvm, ser) ==
  [k \in 1..40 |-> IF HasBit(ser, Pow2((k - 1) \div 8)) THEN 0 ELSE nvm[k]]

\* The NVM with sector i replaced by the 8 bytes of word.
Programmed(nvm, i, word) ==
  [k \in 1..40 |-> IF (k - 1) \div 8 = i THEN word[k - i * 8] ELSE nvm[k]]

\* The device once the requested operation has run.  Outside test mode
\* (no password, NVM not powered) the request does nothing.
Executed(d) ==
  LET opcode == BitAnd(d.ctrl1, FTP_CUST_OPCODE_MASK)
      sect   == BitAnd(d.ctrl0, FTP_CUST_SECT)
      armed  == /\ d.password = FTP_CUST_PASSWORD
                /\ HasBit(d.ctrl0, FTP_CUST_PWR)
                /\ HasBit(d.ctrl0, FTP_CUST_RST_N)
  IN  IF ~armed THEN d
      ELSE IF opcode = READ /\ sect < 5
      THEN [d EXCEPT !.buffer = Sector(d.nvm, sect)]
      ELSE IF opcode = WRITE_PL THEN [d EXCEPT !.pl = d.buffer]
      ELSE IF opcode = WRITE_SER
      THEN [d EXCEPT !.ser = ShiftRight(BitAnd(d.ctrl1, FTP_CUST_SER_MASK), 3)]
      ELSE IF opcode = READ_PL THEN [d EXCEPT !.buffer = d.pl]
      ELSE IF opcode = ERASE_SECTOR
      THEN [d EXCEPT !.nvm = Erased(d.nvm, d.ser)]
      ELSE IF opcode = PROG_SECTOR /\ sect < 5
      THEN [d EXCEPT !.nvm = Programmed(d.nvm, sect, d.pl)]
      ELSE d

\* A device that runs the requested operation but never clears the
\* request bit.
Finished_KeepsRequest(d) == Executed(d)

Finished(d) ==
  [Executed(d) EXCEPT !.ctrl0 = d.ctrl0 - FTP_CUST_REQ]

(***************************************************************************)
(* The driver's protocol methods, each as the sequence of bus operations   *)
(* its code performs: "acquire" and "release" are the entry to and exit    *)
(* from a `with self.i2c_device` block, "write" is device.write, "poll"    *)
(* is the status read of the busy-wait loop, "readinto" is the read of     *)
(* the shared buffer into sectors_data[at : at + 8].                       *)
(***************************************************************************)
Acquire == [op |-> "acquire", reg |-> 0, data |-> <<>>, at |-> 0]

Release == [op |-> "release", reg |-> 0, data |-> <<>>, at |-> 0]

Write(reg, data) == [op |-> "write", reg |-> reg, data |-> data, at |-> 0]

Poll == [op |-> "poll", reg |-> FTP_CTRL_0, data |-> <<>>, at |-> 0]

ReadInto(reg, at) == [op |-> "readinto", reg |-> reg, data |-> <<>>, at |-> at]

PWR_RST == BitOr(FTP_CUST_PWR, FTP_CUST_RST_N)

PWR_RST_REQ == BitOr(PWR_RST, FTP_CUST_REQ)

__enter_password ==
  <<Acquire, Write(FTP_CUST_PASSWORD_REG, <<FTP_CUST_PASSWORD>>), Release>>

\* The power-up without the controller reset write of 0.
nvm_power_up_NoReset ==
  <<Acquire, Write(FTP_CTRL_0, <<PWR_RST>>), Release>>

__nvm_power_up ==
  <<Acquire, Write(FTP_CTRL_0, <<0>>), Write(FTP_CTRL_0, <<PWR_RST>>), Release>>

__enter_read_mode == __enter_password \o __nvm_power_up

\* The wait that takes the lock and returns without reading the status.
await_ftp_cust_req_NoPoll == <<Acquire, Release>>

__await_ftp_cust_req == <<Acquire, Poll, Release>>

\* __exit_test_mode without its second write: the password stays.
exit_test_mode_KeepsPassword ==
  <<Acquire, Write(FTP_CTRL_0, <<FTP_CUST_RST_N, 0>>), Release>>

__exit_test_mode ==
  <<Acquire, Write(FTP_CTRL_0, <<FTP_CUST_RST_N, 0>>),
    Write(FTP_CUST_PASSWORD_REG, <<0>>), Release>>

\* The loop body reading every sector into the start of the buffer
\* (in_start and in_end left at their defaults' offset 0).
ReadSector_AtStart(i) ==
  <<Acquire,
    Write(FTP_CTRL_0, <<PWR_RST>>),
    Write(FTP_CTRL_1, <<BitAnd(READ, FTP_CUST_OPCODE_MASK)>>),
    Write(FTP_CTRL_0, <<BitOr(BitAnd(i, FTP_CUST_SECT), PWR_RST_REQ)>>),
    Release>>
  \o __await_ftp_cust_req
  \o <<Acquire, ReadInto(RW_BUFFER, 0), Release>>

\* The loop body loading the Prog Sector opcode where Read belongs.
ReadSector_ProgOpcode(i) ==
  <<Acquire,
    Write(FTP_CTRL_0, <<PWR_RST>>),
    Write(FTP_CTRL_1, <<BitAnd(PROG_SECTOR, FTP_CUST_OPCODE_MASK)>>),
    Write(FTP_CTRL_0, <<BitOr(BitAnd(i, FTP_CUST_SECT), PWR_RST_REQ)>>),
    Release>>
  \o __await_ftp_cust_req
  \o <<Acquire, ReadInto(RW_BUFFER, i * 8), Release>>

\* The loop body calling the busy-poll helper inside its first `with`
\* block, before the bus lock is released.
ReadSector_AwaitInBlock(i) ==
  <<Acquire,
    Write(FTP_CTRL_0, <<PWR_RST>>),
    Write(FTP_CTRL_1, <<BitAnd(READ, FTP_CUST_OPCODE_MASK)>>),
    Write(FTP_CTRL_0, <<BitOr(BitAnd(i, FTP_CUST_SECT), PWR_RST_REQ)>>)>>
  \o __await_ftp_cust_req
  \o <<Release>>
  \o <<Acquire, ReadInto(RW_BUFFER, i * 8), Release>>

\* The body of read_parameters' loop, for sector i.
ReadSector(i) ==
  <<Acquire,
    Write(FTP_CTRL_0, <<PWR_RST>>),
    Write(FTP_CTRL_1, <<BitAnd(READ, FTP_CUST_OPCODE_MASK)>>),
    Write(FTP_CTRL_0, <<BitOr(BitAnd(i, FTP_CUST_SECT), PWR_RST_REQ)>>),
    Release>>
  \o __await_ftp_cust_req
  \o <<Acquire, ReadInto(RW_BUFFER, i * 8), Release>>

read_parameters ==
  __enter_read_mode
  \o ReadSector(0) \o ReadSector(1) \o ReadSector(2) \o ReadSector(3)
  \o ReadSector(4)
  \o __exit_test_mode

\* Set an opcode in control register 1, load it with the request bit.
EraseAll ==
  LET erase_sectors ==
        BitOr(SECTOR_0, BitOr(SECTOR_1, BitOr(SECTOR_2, BitOr(SECTOR_3, SECTOR_4))))
  IN  <<Acquire,
        Write(FTP_CTRL_1,
              <<BitOr(BitAnd(ShiftLeft(erase_sectors, 3), FTP_CUST_SER_MASK),
                      BitAnd(WRITE_SER, FTP_CUST_OPCODE_MASK))>>),
        Write(FTP_CTRL_0, <<PWR_RST_REQ>>),
        Release>>
      \o __await_ftp_cust_req
      \o <<Acquire,
           Write(FTP_CTRL_1, <<BitAnd(SOFT_PROG_SECTOR, FTP_CUST_OPCODE_MASK)>>),
           Write(FTP_CTRL_0, <<PWR_RST_REQ>>),
           Release>>
      \o __await_ftp_cust_req
      \o <<Acquire,
           Write(FTP_CTRL_1, <<BitAnd(ERASE_SECTOR, FTP_CUST_OPCODE_MASK)>>),
           Write(FTP_CTRL_0, <<PWR_RST_REQ>>),
           Release>>
      \o __await_ftp_cust_req

\* The loop body programming every sector's bytes into sector 0.
WriteSector_NoIndex(data, i) ==
  <<Acquire,
    Write(RW_BUFFER, Sector(data, i)),
    Write(FTP_CTRL_0, <<PWR_RST>>),
    Write(FTP_CTRL_1, <<BitAnd(WRITE_PL, FTP_CUST_OPCODE_MASK)>>),
    Write(FTP_CTRL_0, <<PWR_RST_REQ>>),
    Release>>
  \o __await_ftp_cust_req
  \o <<Acquire,
       Write(FTP_CTRL_1, <<BitAnd(PROG_SECTOR, FTP_CUST_OPCODE_MASK)>>),
       Write(FTP_CTRL_0, <<PWR_RST_REQ>>),
       Release>>
  \o __await_ftp_cust_req

\* The body of __write_parameters' loop, for sector i.
WriteSector(data, i) ==
  <<Acquire,
    Write(RW_BUFFER, Sector(data, i)),
    Write(FTP_CTRL_0, <<PWR_RST>>),
    Write(FTP_CTRL_1, <<BitAnd(WRITE_PL, FTP_CUST_OPCODE_MASK)>>),
    Write(FTP_CTRL_0, <<PWR_RST_REQ>>),
    Release>>
  \o __await_ftp_cust_req
  \o <<Acquire,
       Write(FTP_CTRL_1, <<BitAnd(PROG_SECTOR, FTP_CUST_OPCODE_MASK)>>),
       Write(FTP_CTRL_0, <<BitOr(BitAnd(i, FTP_CUST_SECT), PWR_RST_REQ)>>),
       Release>>
  \o __await_ftp_cust_req

\* __write_parameters clearing the shared buffer after the power-up.
write_parameters_ClearAfterPowerUp(data) ==
  __enter_password
  \o __nvm_power_up
  \o <<Acquire, Write(RW_BUFFER, <<0>>), Release>>
  \o EraseAll
  \o WriteSector(data, 0) \o WriteSector(data, 1) \o WriteSector(data, 2)
  \o WriteSector(data, 3) \o WriteSector(data, 4)
  \o __exit_test_mode

__write_parameters(data) ==
  __enter_password
  \o <<Acquire, Write(RW_BUFFER, <<0>>), Release>>
  \o __nvm_power_up
  \o EraseAll
  \o WriteSector(data, 0) \o WriteSector(data, 1) \o WriteSector(data, 2)
  \o WriteSector(data, 3) \o WriteSector(data, 4)
  \o __exit_test_mode

write_parameters == __write_parameters(sectors_data)

\* write_parameter_defaults reading the device back into the buffer after
\* programming it.
write_parameter_defaults_ThenRead ==
  __write_parameters(DEFAULT_NVM) \o read_parameters

write_parameter_defaults == __write_parameters(DEFAULT_NVM)

(***************************************************************************)
(* The state machine: one top-level call at a time (the driver is          *)
(* synchronous), one bus operation per step.                               *)
(***************************************************************************)
NoCall ==
  [inst |-> "A", kind |-> "none", pc |-> 0, status |-> "idle", ctor |-> FALSE,
   prev |-> "none", pre_nvm |-> <<>>, pre_mirror |-> <<>>]

NoSet == [op |-> "none", inst |-> "A", pdo |-> 0, arg |-> 0, before |-> <<>>]

NoFresh == [inst |-> "A", kind |-> "none"]

Init ==
  /\ sectors_data = Zeros(8 * 5)
  /\ constructed = {}
  /\ dev \in [Insts -> {DevInit(n) : n \in {DEFAULT_NVM, AltNvm}}]
  /\ \A i \in Insts : dev[i].nvm \in InitNvm[i]
  /\ lock = "free"
  /\ call = NoCall
  /\ log = <<>>
  /\ last = NoSet
  /\ fresh = NoFresh
  /\ counts = [calls |-> 0, failures |-> 0, ops |-> 0]

Running == call.status = "running"

Program ==
  IF call.kind = "read" THEN read_parameters
  ELSE IF call.kind = "write" THEN write_parameters
  ELSE IF call.kind = "defaults" THEN write_parameter_defaults
  ELSE <<>>

AtOp(op) ==
  /\ Running
  /\ call.pc <= Len(Program)
  /\ Program[call.pc].op = op

CurOp == Program[call.pc]

\* The caller may call the driver: no call is in progress, and none has
\* raised (the model follows the caller up to its first exception).
CallerReady ==
  /\ ~Running
  /\ counts.failures = 0
  /\ counts.calls + counts.ops < MaxCalls

\* A top-level call begins: the buffer it may change is no longer fresh.
Begin(i, kind, ctor) ==
  /\ CallerReady
  /\ call' = [inst |-> i, kind |-> kind, pc |-> 1, status |-> "running",
              ctor |-> ctor,
              prev |-> IF fresh.inst = i THEN fresh.kind ELSE "none",
              pre_nvm |-> dev[i].nvm, pre_mirror |-> sectors_data]
  /\ log' = <<>>
  /\ last' = NoSet
  /\ fresh' = NoFresh
  /\ counts' = [counts EXCEPT !.calls = @ + 1]
  /\ UNCHANGED <<sectors_data, constructed, dev, lock>>

\* STUSB4500(i2c_bus, address): __init__ calls read_parameters.
Construct(i) == i \notin constructed /\ Begin(i, "read", TRUE)

CallReadParameters(i) == i \in constructed /\ Begin(i, "read", FALSE)

CallWriteParameters(i) == i \in constructed /\ Begin(i, "write", FALSE)

CallWriteParameterDefaults(i) ==
  i \in constructed /\ Begin(i, "defaults", FALSE)

Advance == call' = [call EXCEPT !.pc = @ + 1]

\* Entering a block without taking the bus lock.
DoAcquire_NoLock ==
  /\ AtOp("acquire")
  /\ Advance
  /\ UNCHANGED <<sectors_data, constructed, dev, lock, log, last, fresh, counts>>

\* Entering a `with self.i2c_device` block: wait for the bus lock.
DoAcquire ==
  /\ AtOp("acquire")
  /\ lock = "free"
  /\ lock' = call.inst
  /\ Advance
  /\ UNCHANGED <<sectors_data, constructed, dev, log, last, fresh, counts>>

DoRelease ==
  /\ AtOp("release")
  /\ lock' = "free"
  /\ Advance
  /\ UNCHANGED <<sectors_data, constructed, dev, log, last, fresh, counts>>

DoWrite ==
  /\ AtOp("write")
  /\ dev' = [dev EXCEPT ![call.inst] = DevWrite(@, CurOp.reg, CurOp.data)]
  /\ log' = Append(log, [op |-> "write", reg |-> CurOp.reg, data |-> CurOp.data])
  /\ Advance
  /\ UNCHANGED <<sectors_data, constructed, lock, last, fresh, counts>>

\* One status read of the busy-wait loop: leave the loop when the request
\* bit reads clear.  Of a loop's reads the log keeps the last one only.
DoPoll ==
  /\ AtOp("poll")
  /\ LET status == DevRead(dev[call.inst], FTP_CTRL_0, 1)
     IN  IF HasBit(status[1], FTP_CUST_REQ)
         THEN UNCHANGED <<call, log>>
         ELSE /\ Advance
              /\ log' = Append(log, [op |-> "read", reg |-> FTP_CTRL_0,
                                     data |-> status])
  /\ UNCHANGED <<sectors_data, constructed, dev, lock, last, fresh, counts>>

\* write_then_readinto(bytes([RW_BUFFER]), sectors_data, in_start, in_end).
DoReadInto ==
  /\ AtOp("readinto")
  /\ LET bytes == DevRead(dev[call.inst], CurOp.reg, 8)
     IN  /\ sectors_data' =
              [k \in 1..40 |->
                 IF k > CurOp.at /\ k <= CurOp.at + 8
                 THEN bytes[k - CurOp.at] ELSE sectors_data[k]]
         /\ log' = Append(log, [op |-> "read", reg |-> CurOp.reg, data |-> bytes])
  /\ Advance
  /\ UNCHANGED <<constructed, dev, lock, last, fresh, counts>>

\* The method returns; a constructor's instance now exists.
Return ==
  /\ Running
  /\ call.pc > Len(Program)
  /\ call' = [call EXCEPT !.status = "returned"]
  /\ constructed' = constructed \cup {call.inst}
  /\ fresh' = [inst |-> call.inst, kind |-> call.kind]
  /\ UNCHANGED <<sectors_data, dev, lock, log, last, counts>>

\* The call after a bus transaction raised, were the exception swallowed:
\* the method carries on with its next step.
Raised_Swallowed(c) == c

\* The call after a bus transaction raised: nothing catches the exception,
\* so the method, and a constructor with it, is left at once.
Raised(c) == [c EXCEPT !.status = "raised"]

\* A failing bus transaction that leaves the `with` block without
\* releasing the bus lock.
TransportError_KeepsLock ==
  /\ \/ AtOp("write")
     \/ AtOp("poll")
     \/ AtOp("readinto")
  /\ counts' = [counts EXCEPT !.failures = @ + 1]
  /\ call' = Raised(call)
  /\ UNCHANGED <<sectors_data, constructed, dev, lock, log, last, fresh>>

\* The bus transaction about to run fails (NACK, timeout): it changes
\* nothing on the device, and leaving the `with` block releases the lock.
TransportError ==
  /\ \/ AtOp("write")
     \/ AtOp("poll")
     \/ AtOp("readinto")
  /\ counts' = [counts EXCEPT !.failures = @ + 1]
  /\ call' = Raised(call)
  /\ lock' = IF Raised(call).status = "raised" THEN "free" ELSE lock
  /\ UNCHANGED <<sectors_data, constructed, dev, log, last, fresh>>

\* The device's NVM controller finishes the requested operation.
DeviceFinish(i) ==
  /\ HasBit(dev[i].ctrl0, FTP_CUST_REQ)
  /\ dev' = [dev EXCEPT ![i] = Finished(@)]
  /\ UNCHANGED <<sectors_data, constructed, lock, call, log, last, fresh, counts>>

\* i.set_voltage(h / 100, pdo) between top-level calls.
SetVoltage(i, h, pdo) ==
  /\ CallerReady
  /\ i \in constructed
  /\ counts.ops < MaxOps
  /\ sectors_data' = set_voltage(sectors_data, FLit(h, 100), pdo)
  /\ last' = [op |-> "set_voltage", inst |-> i, pdo |-> pdo, arg |-> h,
              before |-> sectors_data]
  /\ fresh' = NoFresh
  /\ counts' = [counts EXCEPT !.ops = @ + 1]
  /\ UNCHANGED <<constructed, dev, lock, call, log>>

\* i.set_current(h / 100, pdo) between top-level calls.
SetCurrent(i, h, pdo) ==
  /\ CallerReady
  /\ i \in constructed
  /\ counts.ops < MaxOps
  /\ sectors_data' = set_current(sectors_data, FLit(h, 100), pdo)
  /\ last' = [op |-> "set_current", inst |-> i, pdo |-> pdo, arg |-> h,
              before |-> sectors_data]
  /\ fresh' = NoFresh
  /\ counts' = [counts EXCEPT !.ops = @ + 1]
  /\ UNCHANGED <<constructed, dev, lock, call, log>>

Next ==
  \/ \E i \in Insts : Construct(i)
  \/ \E i \in Insts : CallReadParameters(i)
  \/ \E i \in Insts : CallWriteParameters(i)
  \/ \E i \in Insts : CallWriteParameterDefaults(i)
  \/ DoAcquire
  \/ DoRelease
  \/ DoWrite
  \/ DoPoll
  \/ DoReadInto
  \/ Return
  \/ TransportError
  \/ \E i \in Insts : DeviceFinish(i)
  \/ \E i \in Insts, h \in SpecVoltages, p \in SpecPdos : SetVoltage(i, h, p)
  \/ \E i \in Insts, h \in SpecCurrents, p \in SpecPdos : SetCurrent(i, h, p)

Spec == Init /\ [][Next]_vars

(***************************************************************************)
(* The codec on its own: one setter call on each of a set of buffers,      *)
(* with arguments on a grid of hundredths.                                  *)
(***************************************************************************)
\* The largest voltage argument, in volts, and current argument, in amps.
MaxVolts == 21
MaxAmps == 6

\* Voltages in steps of 0.1 V, currents in steps of 0.01 A.
CodecVoltages == {10 * k : k \in 0..(10 * MaxVolts)}

CodecCurrents == 0..(100 * MaxAmps)

\* The pdo arguments: omitted, and 1, 2, 3.
CodecPdos == {NoPdo, 1, 2, 3}

CodecImages ==
  {DEFAULT_NVM, AltNvm, Zeros(8 * 5), [k \in 1..40 |-> 255]}

\* An instance exists, its buffer holds any of the images, and the caller
\* has one call left.
CodecInit ==
  /\ sectors_data \in CodecImages
  /\ constructed = Insts
  /\ dev = [i \in Insts |-> DevInit(DEFAULT_NVM)]
  /\ lock = "free"
  /\ call = NoCall
  /\ log = <<>>
  /\ last = NoSet
  /\ fresh = NoFresh
  /\ counts = [calls |-> MaxCalls - 1, failures |-> 0, ops |-> 0]

CodecNext ==
  \/ \E h \in CodecVoltages, p \in CodecPdos : SetVoltage("A", h, p)
  \/ \E h \in CodecCurrents, p \in CodecPdos : SetCurrent("A", h, p)

CodecSpec == CodecInit /\ [][CodecNext]_vars

(***************************************************************************)
(* The round trip: a caller reads a value with a getter and stores it      *)
(* back with the matching setter, for every value the field can hold.      *)
(***************************************************************************)
\* The default image with PDO2's voltage byte set to b.
WithVoltage2(b) == SetByte(DEFAULT_NVM, 4 * 8 + 1, b)

\* The default image with PDO3's 10-bit voltage set to n.
WithVoltage3(n) ==
  SetByte(SetByte(DEFAULT_NVM, 4 * 8 + 2, n % 256), 4 * 8 + 3,
          BitOr(BitAnd(Byte(DEFAULT_NVM, 4 * 8 + 3), 252), n \div 256))

\* The default image with the three current fields set to n.
WithCurrents(n) ==
  SetByte(SetByte(SetByte(DEFAULT_NVM, 3 * 8 + 2, 16 * n + 6),
                  3 * 8 + 4, 80 + n),
          3 * 8 + 5, 16 * n + 5)

RoundTripImages ==
  {WithVoltage2(b) : b \in 0..255}
    \cup {WithVoltage3(n) : n \in 0..1023}
    \cup {WithCurrents(n) : n \in 0..15}

RoundTripInit ==
  /\ sectors_data \in RoundTripImages
  /\ constructed = Insts
  /\ dev = [i \in Insts |-> DevInit(DEFAULT_NVM)]
  /\ lock = "free"
  /\ call = NoCall
  /\ log = <<>>
  /\ last = NoSet
  /\ fresh = NoFresh
  /\ counts = [calls |-> MaxCalls - 1, failures |-> 0, ops |-> 0]

\* i.set_voltage(i.get_voltage(pdo), pdo)
ReencodeVoltage(i, pdo) ==
  /\ CallerReady
  /\ i \in constructed
  /\ counts.ops < MaxOps
  /\ sectors_data' = set_voltage(sectors_data, get_voltage(sectors_data, pdo), pdo)
  /\ last' = [op |-> "reencode_voltage", inst |-> i, pdo |-> pdo, arg |-> 0,
              before |-> sectors_data]
  /\ fresh' = NoFresh
  /\ counts' = [counts EXCEPT !.ops = @ + 1]
  /\ UNCHANGED <<constructed, dev, lock, call, log>>

\* i.set_current(i.get_current(pdo), pdo)
ReencodeCurrent(i, pdo) ==
  /\ CallerReady
  /\ i \in constructed
  /\ counts.ops < MaxOps
  /\ sectors_data' = set_current(sectors_data, get_current(sectors_data, pdo), pdo)
  /\ last' = [op |-> "reencode_current", inst |-> i, pdo |-> pdo, arg |-> 0,
              before |-> sectors_data]
  /\ fresh' = NoFresh
  /\ counts' = [counts EXCEPT !.ops = @ + 1]
  /\ UNCHANGED <<constructed, dev, lock, call, log>>

RoundTripNext ==
  \/ \E p \in {2, 3} : ReencodeVoltage("A", p)
  \/ \E p \in {1, 2, 3} : ReencodeCurrent("A", p)

RoundTripSpec == RoundTripInit /\ [][RoundTripNext]_vars

(***************************************************************************)
(* The properties.                                                         *)
(***************************************************************************)
\* A log entry that loads an opcode: a write to control register 0 with the
\* request bit set.
IsRequest(e) ==
  e.op = "write" /\ e.reg = FTP_CTRL_0 /\ HasBit(e.data[1], FTP_CUST_REQ)

\* The sector indices of the requests of a log, in order.
SectorsRequested(l) ==
  LET requests == SelectSeq(l, IsRequest)
  IN  [k \in 1..Len(requests) |-> BitAnd(requests[k].data[1], FTP_CUST_SECT)]

IsBufferRead(e) == e.op = "read" /\ e.reg = RW_BUFFER

BufferReads(l) == SelectSeq(l, IsBufferRead)

\* What instance i's getters read: self.sectors_data.
Mirror(i) == sectors_data

\* C1: once a read_parameters call (the constructor's included) has
\* returned, every sector of the buffer equals the device's NVM sector,
\* whatever the buffer held; the call requested the sectors 0, 1, 2, 3, 4
\* in this order, each once, and read the shared buffer once after each.
C1_ReadFillsMirror ==
  /\ fresh.kind = "read" =>
       \A i \in 0..4 :
         Sector(Mirror(fresh.inst), i) = Sector(dev[fresh.inst].nvm, i)
  /\ (call.kind = "read" /\ call.status = "returned") =>
       /\ SectorsRequested(log) = <<0, 1, 2, 3, 4>>
       /\ Len(BufferReads(log)) = 5
       /\ \A i \in 0..4 :
            BufferReads(log)[i + 1].data = Sector(dev[call.inst].nvm, i)

\* A read_parameters call returned after a setter call, and replaced what
\* the buffer held.
C1_Witness ==
  /\ fresh.kind = "read"
  /\ ~call.ctor
  /\ counts.ops > 0
  /\ call.pre_mirror # sectors_data
  /\ sectors_data = dev[fresh.inst].nvm

\* C2: once write_parameters has returned, every device sector equals the
\* buffer's sector (write_parameter_defaults: the default image's); a write
\* straight after a read leaves the NVM as it was, and a read straight
\* after a write leaves the buffer as it was.
C2_WriteProgramsMirror ==
  /\ fresh.kind = "write" =>
       \A i \in 0..4 :
         Sector(dev[fresh.inst].nvm, i) = Sector(Mirror(fresh.inst), i)
  /\ fresh.kind = "defaults" => dev[fresh.inst].nvm = DEFAULT_NVM
  /\ (fresh.kind = "write" /\ call.prev = "read") =>
       dev[fresh.inst].nvm = call.pre_nvm
  /\ (fresh.kind = "read" /\ call.prev = "write") =>
       sectors_data = call.pre_mirror

\* A write_parameters call returned and changed the device's NVM to the
\* buffer's contents.
C2_Witness ==
  /\ fresh.kind = "write"
  /\ dev[fresh.inst].nvm # call.pre_nvm
  /\ dev[fresh.inst].nvm = sectors_data
  /\ sectors_data # Zeros(8 * 5)

\* C3: the last two bus transactions of a call that returned are the write
\* clearing the control registers and the write of 0 to the password
\* register, and between successful calls no device holds the password.
C3_ExitIsLast ==
  /\ call.status = "returned" =>
       /\ Len(log) >= 2
       /\ log[Len(log) - 1] =
            [op |-> "write", reg |-> FTP_CTRL_0, data |-> <<FTP_CUST_RST_N, 0>>]
       /\ log[Len(log)] =
            [op |-> "write", reg |-> FTP_CUST_PASSWORD_REG, data |-> <<0>>]
  /\ (~Running /\ counts.failures = 0) =>
       \A i \in Insts : dev[i].password # FTP_CUST_PASSWORD

\* A write_parameter_defaults call entered test mode and returned.
C3_Witness ==
  /\ call.status = "returned"
  /\ call.kind = "defaults"
  /\ log[1] = [op |-> "write", reg |-> FTP_CUST_PASSWORD_REG,
               data |-> <<FTP_CUST_PASSWORD>>]
  /\ dev[call.inst].password = 0

\* C4: a device's NVM changes only by a request of a write_parameters or
\* write_parameter_defaults call on its instance, and a setter call changes
\* no device, issues no bus transaction and does not touch the bus lock.
C4_NvmChangesOnlyInWrites ==
  [][/\ \A i \in Insts :
          dev'[i].nvm # dev[i].nvm =>
            (call.inst = i /\ call.kind \in {"write", "defaults"})
     /\ counts'.ops > counts.ops =>
          (dev' = dev /\ log' = log /\ lock' = lock)]_vars

\* After a setter call, a read_parameters call returned, and every device's
\* NVM is what it was at the start.
C4_Witness ==
  /\ fresh.kind = "read"
  /\ ~call.ctor
  /\ counts.ops > 0
  /\ \A i \in Insts : dev[i].nvm \in InitNvm[i]

\* C5: the step at which a bus transaction fails ends the call as raised,
\* with no transaction done, and after it the call does nothing more: the
\* log of bus transactions stays as it was at the failure.
C5_FailurePropagates ==
  [][/\ counts'.failures > counts.failures =>
          (call'.status = "raised" /\ log' = log /\ dev' = dev)
     /\ counts.failures > 0 => (log' = log /\ call' = call)]_vars

\* A write_parameters call raised part-way, the password still in the
\* device's register.
C5_Witness ==
  /\ call.status = "raised"
  /\ call.kind = "write"
  /\ Len(log) > 1
  /\ dev[call.inst].password = FTP_CUST_PASSWORD

\* The bits of byte k that a setter's documented field covers.
FieldMask(op, pdo, k) ==
  IF op = "set_current"
  THEN IF pdo = 1 THEN (IF k = 26 THEN 240 ELSE 0)
       ELSE IF pdo = 2 THEN (IF k = 28 THEN 15 ELSE 0)
       ELSE (IF k = 29 THEN 240 ELSE 0)
  ELSE IF pdo = 2 THEN (IF k = 33 THEN 255 ELSE 0)
       ELSE (IF k = 34 THEN 255 ELSE IF k = 35 THEN 3 ELSE 0)

\* C6: after set_current or set_voltage, every bit of the buffer outside
\* the field of the PDO (any pdo but 1 and 2 being PDO3 for set_current,
\* any pdo but 2 being PDO3 for set_voltage) is what it was before.
C6_SettersKeepOtherBits ==
  last.op \in {"set_voltage", "set_current"} =>
    \A k \in 0..39 :
      BitAnd(Byte(sectors_data, k), 255 - FieldMask(last.op, last.pdo, k))
        = BitAnd(Byte(last.before, k), 255 - FieldMask(last.op, last.pdo, k))

\* set_current(pdo=1) stored a new current in a byte whose low bits are
\* not all zero.
C6_Witness ==
  /\ last.op = "set_current"
  /\ last.pdo = 1
  /\ sectors_data # last.before
  /\ BitAnd(Byte(last.before, 26), 15) # 0
  /\ BitAnd(Byte(sectors_data, 26), 15) = BitAnd(Byte(last.before, 26), 15)

\* C7: storing the value a getter returns with the matching setter leaves
\* the buffer, and so the stored field and the decoded value, as it was.
C7_RoundTrip ==
  last.op \in {"reencode_voltage", "reencode_current"} =>
    sectors_data = last.before

\* C8: set_current(h / 100) stores 0 for h below 50, and otherwise a value
\* n nearest to 4h/100 - 1 (h up to 300) or to 2 min(h, 500)/100 + 5
\* (h above 300): n is at most one half away from it.
C8_RoundsToNearest ==
  last.op = "set_current" =>
    LET h      == last.arg
        n      == digital_value(sectors_data, last.pdo)
        target == IF h <= 300 THEN 4 * h - 100 ELSE 2 * Min(h, 500) + 500
    IN  IF h < 50 THEN n = 0
        ELSE 100 * n - target \in -50..50

\* C9: whatever the buffer holds, get_voltage(1) is 5 and
\* get_lower_voltage_limit(1) is 5.
C9_Pdo1Fixed ==
  /\ get_voltage(sectors_data, 1) = FFromInt(5)
  /\ FTrunc(get_voltage(sectors_data, 1)) = 5
  /\ get_lower_voltage_limit(sectors_data, 1) = 5

\* After set_voltage, a buffer whose PDO2 and PDO3 voltages are not 5.
C9_Witness ==
  /\ last.op = "set_voltage"
  /\ get_voltage(sectors_data, 2) # FFromInt(5)
  /\ get_voltage(sectors_data, 3) # FFromInt(5)
  /\ get_voltage(sectors_data, 1) = FFromInt(5)

\* C10: with B constructed, a setter call or a read_parameters call on A
\* leaves B's buffer, and so what B's getters return, as it was.
C10_MirrorOwned ==
  "B" \in constructed =>
    /\ (last.op # "none" /\ last.inst = "A") => Mirror("B") = last.before
    /\ (fresh.kind = "read" /\ fresh.inst = "A") => Mirror("B") = call.pre_mirror

\* C11: whenever no call is running (none made yet, the last one returned,
\* or it raised at a write, a status read of the busy-poll or a buffer
\* read), the bus lock is free; the lock is held only by the instance of
\* the running call, inside one of its `with` blocks.
C11_LockReleased ==
  /\ ~Running => lock = "free"
  /\ lock # "free" =>
       /\ Running
       /\ lock = call.inst
       /\ call.pc <= Len(Program)
       /\ Program[call.pc].op # "acquire"

\* A call raised at a status read of its busy-poll, and the lock is free.
C11_Witness ==
  /\ call.status = "raised"
  /\ call.pc <= Len(Program)
  /\ Program[call.pc].op = "poll"
  /\ lock = "free"

(***************************************************************************)
(* The protocol without transport errors and without setter calls, with    *)
(* the fairness its parts have: the driver is a running synchronous        *)
(* program, which takes its next step, and a device's NVM controller       *)
(* finishes the operation it was asked for.                                *)
(***************************************************************************)
DriverStep ==
  \/ DoAcquire
  \/ DoRelease
  \/ DoWrite
  \/ DoPoll
  \/ DoReadInto
  \/ Return

LiveNext ==
  \/ \E i \in Insts : Construct(i)
  \/ \E i \in Insts : CallReadParameters(i)
  \/ \E i \in Insts : CallWriteParameters(i)
  \/ \E i \in Insts : CallWriteParameterDefaults(i)
  \/ DoAcquire
  \/ DoRelease
  \/ DoWrite
  \/ DoPoll
  \/ DoReadInto
  \/ Return
  \/ \E i \in Insts : DeviceFinish(i)

LiveSpec ==
  /\ Init
  /\ [][LiveNext]_vars
  /\ WF_vars(DriverStep)
  /\ \A i \in Insts : WF_vars(DeviceFinish(i))

\* The running call waits in its busy-poll: the request bit is set.
PollsBusy ==
  AtOp("poll") /\ HasBit(dev[call.inst].ctrl0, FTP_CUST_REQ)

\* C12: without transport errors and with devices that finish what they
\* are asked, every call that runs eventually returns (so it has done its
\* exit-test-mode step); and a step taken while the request bit is set
\* leaves the caller in its busy-poll with no transaction but status reads,
\* so it leaves the poll only once the device has cleared the bit.
C12_TerminatesIffCleared ==
  /\ Running ~> (call.status = "returned" /\ dev[call.inst].password = 0)
  /\ [][PollsBusy => (call' = call /\ log' = log)]_vars

\* write_parameters waits in a busy-poll with the request bit set.
C12_Witness ==
  /\ PollsBusy
  /\ call.kind = "write"

\* The log entry of device.write(bytes([reg]) + data).
Written(reg, data) == [op |-> "write", reg |-> reg, data |-> data]

IsWriteTo(e, reg) == e.op = "write" /\ e.reg = reg

\* C13: at every point of every call, the first bus transaction is the
\* write of the password 0x47 to register 0x95, so it precedes every write
\* to the control registers; and every write to control register 1 comes
\* after the power-up, control register 0 written 0 and next written
\* power | reset.
C13_EntryOrder ==
  /\ Len(log) > 0 =>
       log[1] = Written(FTP_CUST_PASSWORD_REG, <<FTP_CUST_PASSWORD>>)
  /\ \A k \in 1..Len(log) :
       (IsWriteTo(log[k], FTP_CTRL_0) \/ IsWriteTo(log[k], FTP_CTRL_1)) =>
         \E j \in 1..(k - 1) :
           log[j] = Written(FTP_CUST_PASSWORD_REG, <<FTP_CUST_PASSWORD>>)
  /\ \A k \in 1..Len(log) :
       IsWriteTo(log[k], FTP_CTRL_1) =>
         \E j \in 2..(k - 1) :
           /\ log[j - 1] = Written(FTP_CTRL_0, <<0>>)
           /\ log[j] = Written(FTP_CTRL_0, <<PWR_RST>>)

\* write_parameters has written its first opcode to control register 1.
C13_Witness ==
  /\ call.kind = "write"
  /\ Running
  /\ Len(log) > 0
  /\ IsWriteTo(log[Len(log)], FTP_CTRL_1)
  /\ \A k \in 1..(Len(log) - 1) : ~IsWriteTo(log[k], FTP_CTRL_1)

\* A status read that found the request bit clear.
IsClearStatus(e) ==
  /\ e.op = "read"
  /\ e.reg = FTP_CTRL_0
  /\ ~HasBit(e.data[1], FTP_CUST_REQ)

\* C14: every write to control register 0 carrying the request bit writes
\* that one register only, comes after a write to control register 1 with
\* no other request in between, and the next transaction after it, if
\* any, is the status read that finds the request bit clear.
C14_SetLoadPoll ==
  \A k \in 1..Len(log) :
    IsRequest(log[k]) =>
      /\ Len(log[k].data) = 1
      /\ \E j \in 1..(k - 1) :
           /\ IsWriteTo(log[j], FTP_CTRL_1)
           /\ Len(log[j].data) = 1
           /\ \A m \in (j + 1)..(k - 1) : ~IsRequest(log[m])
      /\ k < Len(log) => IsClearStatus(log[k + 1])

\* write_parameters returned after its 13 requests: 3 to erase, 2 for each
\* of the 5 sectors.
C14_Witness ==
  /\ call.kind = "write"
  /\ call.status = "returned"
  /\ Len(SelectSeq(log, IsRequest)) = 13
  /\ Len(SelectSeq(log, IsClearStatus)) = 13

(***************************************************************************)
(* The protocol with a second user of the bus, which takes the bus lock    *)
(* when it is free, performs a transaction with another device on the bus  *)
(* and releases the lock.                                                  *)
(***************************************************************************)
OtherAcquire ==
  /\ lock = "free"
  /\ lock' = "other"
  /\ UNCHANGED <<sectors_data, constructed, dev, call, log, last, fresh, counts>>

OtherTransact ==
  /\ lock = "other"
  /\ lock' = "free"
  /\ UNCHANGED <<sectors_data, constructed, dev, call, log, last, fresh, counts>>

BusNext ==
  \/ \E i \in Insts : Construct(i)
  \/ \E i \in Insts : CallReadParameters(i)
  \/ \E i \in Insts : CallWriteParameters(i)
  \/ \E i \in Insts : CallWriteParameterDefaults(i)
  \/ DoAcquire
  \/ DoRelease
  \/ DoWrite
  \/ DoPoll
  \/ DoReadInto
  \/ Return
  \/ \E i \in Insts : DeviceFinish(i)
  \/ OtherAcquire
  \/ OtherTransact

BusSpec == Init /\ [][BusNext]_vars

\* The running call is inside a `with` block: its next step is neither the
\* entry to a block nor the return.
InBlock ==
  /\ Running
  /\ call.pc <= Len(Program)
  /\ Program[call.pc].op # "acquire"

\* The place of the running call in the loop body it executes, from 1, or
\* 0 outside the loop: prefix steps come before the loop, body is one pass.
LoopOffset(prefix, body) ==
  IF Running /\ call.pc > prefix /\ call.pc <= prefix + 5 * body
  THEN ((call.pc - prefix - 1) % body) + 1
  ELSE 0

\* The steps of a loop body that write register reg.
WritesOf(body, reg) ==
  {k \in 1..Len(body) : body[k].op = "write" /\ body[k].reg = reg}

Lowest(S) == CHOOSE k \in S : \A m \in S : k <= m

Highest(S) == CHOOSE k \in S : \A m \in S : k >= m

\* The running call is in the middle of a sector's register sequence: on
\* the read path the opcode-set is done and the read of the shared buffer
\* is not; on the write path the buffer write is done and the Prog-Sector
\* load is not.
MidSequence ==
  IF call.kind = "read"
  THEN LET body == ReadSector(0)
           off  == LoopOffset(Len(__enter_read_mode), Len(body))
       IN  /\ off > Lowest(WritesOf(body, FTP_CTRL_1))
           /\ off <= Lowest({k \in 1..Len(body) : body[k].op = "readinto"})
  ELSE LET body == WriteSector(DEFAULT_NVM, 0)
           off  == LoopOffset(Len(Program) - 5 * Len(body) - Len(__exit_test_mode),
                              Len(body))
       IN  /\ off > Lowest(WritesOf(body, RW_BUFFER))
           /\ off <= Highest(WritesOf(body, FTP_CTRL_0))

\* C15 as amended: the second user of the bus holds the lock, and so
\* performs a transaction, only while the driver is outside every `with`
\* block; it cannot act between the transactions of one block (a sector's
\* opcode-set and its load, the buffer write and the Write-PL load, the
\* Prog-Sector set and its load, the status reads of one busy-poll).
C15_NoInterleavingInBlock == lock = "other" => ~InBlock

\* The second user holds the lock while write_parameters is between a
\* sector's Write-PL load and the busy-poll for it.
C15_Witness ==
  /\ lock = "other"
  /\ Running
  /\ call.kind = "write"
  /\ MidSequence
  /\ Len(log) > 0
  /\ IsRequest(log[Len(log)])
  /\ Program[call.pc + 1].op = "poll"

\* C15: the second user of the bus never holds the lock, and so performs
\* no transaction, while the driver is in the middle of a sector's
\* register sequence.
C15_NoInterleaving == lock = "other" => ~MidSequence

\* The first five bus transactions of __write_parameters.
WriteEntry ==
  << Written(FTP_CUST_PASSWORD_REG, <<FTP_CUST_PASSWORD>>),
     Written(RW_BUFFER, <<0>>),
     Written(FTP_CTRL_0, <<0>>),
     Written(FTP_CTRL_0, <<PWR_RST>>),
     EraseAll[2] >>

IsWriteCall == call.kind \in {"write", "defaults"}

\* C16 as amended: write_parameters (and write_parameter_defaults) writes
\* the password, next clears the shared buffer register to 0, next powers
\* the NVM up (control register 0 written 0, then power | reset), and next
\* sets the Write-SER opcode: the buffer clear comes between the password
\* write and the power-up.
C16_ClearBeforePowerUp ==
  IsWriteCall =>
    /\ \A k \in 1..Min(Len(log), 5) :
         log[k] = Written(WriteEntry[k].reg, WriteEntry[k].data)
    /\ WriteEntry[5].reg = FTP_CTRL_1
    /\ BitAnd(WriteEntry[5].data[1], FTP_CUST_OPCODE_MASK) = WRITE_SER

\* write_parameters has just set the Write-SER opcode.
C16_Witness ==
  /\ call.kind = "write"
  /\ Running
  /\ Len(log) = 5
  /\ log[2] = Written(RW_BUFFER, <<0>>)
  /\ log[3] = Written(FTP_CTRL_0, <<0>>)

\* C16: in write_parameters the write clearing the shared buffer register
\* comes after the complete test-mode entry (password, control register 0
\* written 0, then power | reset) and before the Write-SER opcode is set.
C16_ClearAfterEntry ==
  IsWriteCall =>
    \A k \in 1..Len(log) :
      log[k] = Written(RW_BUFFER, <<0>>) =>
        /\ \E j \in 3..(k - 1) :
             /\ log[j - 2] = Written(FTP_CUST_PASSWORD_REG, <<FTP_CUST_PASSWORD>>)
             /\ log[j - 1] = Written(FTP_CTRL_0, <<0>>)
             /\ log[j] = Written(FTP_CTRL_0, <<PWR_RST>>)
        /\ \A j \in 1..(k - 1) : ~IsWriteTo(log[j], FTP_CTRL_1)

\* The float x is num / den up to the rounding of float arithmetic: the
\* two differ by at most num / den / 2^50 (den < 2^15).
FNear(x, num, den) ==
  IF x[1] = <<>> THEN num = 0
  ELSE LET a == BigShl(BigMulSmall(x[1], den), Max(x[2], 0))
           b == BigShl(BigFromInt(num), Max(-x[2], 0))
           d == IF BigCmp(a, b) >= 0 THEN BigSub(a, b) ELSE BigSub(b, a)
       IN  BigCmp(BigShl(d, 50), b) <= 0

\* The 10-bit value whose high 2 bits are bits 0-1 of byte hi and whose low
\* 8 bits are byte lo.
TenBits(data, hi, lo) == 256 * (Byte(data, hi) % 4) + Byte(data, lo)

\* The argument h / 100 of set_voltage after its clamp to 5..20, in units
\* of 0.05 V (h a multiple of 5).
ClampedUnits(h) == Max(500, Min(h, 2000)) \div 5

\* C17 as amended: for every image, get_voltage(2) is byte 33 times 0.2
\* and get_voltage(3) is the 10-bit value of byte 35 bits 0-1 and byte 34
\* times 0.05; set_voltage(pdo=3) writes that field (for an argument on
\* the 0.1 V grid: the clamped argument in units of 0.05 V, or the unit
\* below it) and leaves bytes 26 and 27 alone.
C17_VoltageFields ==
  /\ FNear(get_voltage(sectors_data, 2), Byte(sectors_data, 33), 5)
  /\ FNear(get_voltage(sectors_data, 3), TenBits(sectors_data, 35, 34), 20)
  /\ (last.op = "set_voltage" /\ last.pdo = 3) =>
       /\ TenBits(sectors_data, 35, 34)
            \in {ClampedUnits(last.arg) - 1, ClampedUnits(last.arg)}
       /\ Byte(sectors_data, 26) = Byte(last.before, 26)
       /\ Byte(sectors_data, 27) = Byte(last.before, 27)

\* set_voltage(pdo=3) changed the PDO3 field of an image whose bytes 26,
\* 27 hold another value than bytes 34, 35.
C17_Witness ==
  /\ last.op = "set_voltage"
  /\ last.pdo = 3
  /\ TenBits(sectors_data, 35, 34) # TenBits(last.before, 35, 34)
  /\ TenBits(sectors_data, 27, 26) # TenBits(sectors_data, 35, 34)
  /\ FNear(get_voltage(sectors_data, 3), TenBits(sectors_data, 35, 34), 20)

\* C17: for every image, get_voltage(2) is byte 33 times 0.2 and
\* get_voltage(3) is the 10-bit value of byte 27 bits 0-1 and byte 26
\* times 0.05; set_voltage(pdo=3) writes that field.
C17_VoltageTable ==
  /\ FNear(get_voltage(sectors_data, 2), Byte(sectors_data, 33), 5)
  /\ FNear(get_voltage(sectors_data, 3), TenBits(sectors_data, 27, 26), 20)
  /\ (last.op = "set_voltage" /\ last.pdo = 3) =>
       TenBits(sectors_data, 27, 26)
         \in {ClampedUnits(last.arg) - 1, ClampedUnits(last.arg)}

\* C18: whenever a read_parameters call has ended, by returning or by a
\* transport error anywhere in its five-sector loop, the buffer is either
\* entirely the device's five sectors or entirely what it held before the
\* call.
C18_ReadAtomic ==
  (call.kind = "read" /\ (call.status = "raised" \/ fresh.kind = "read")) =>
    \/ sectors_data = dev[call.inst].nvm
    \/ sectors_data = call.pre_mirror

\* pdo arguments that name no PDO: omitted, and numbers other than 1, 2, 3.
OtherPdos == {NoPdo, 0, 4}

\* C19: set_voltage with any pdo other than 2 (1 and an omitted argument
\* included) changes the buffer exactly as set_voltage with pdo = 3 does,
\* while get_voltage(1) stays 5; set_current with any pdo other than 1 or 2
\* changes the buffer as with pdo = 3, and every getter with such a pdo
\* returns what it returns for pdo = 3.
C19_OtherPdoIsPdo3 ==
  /\ (last.op = "set_voltage" /\ last.pdo # 2) =>
       /\ sectors_data = set_voltage(last.before, FLit(last.arg, 100), 3)
       /\ \A p \in OtherPdos \cup {1} :
            set_voltage(last.before, FLit(last.arg, 100), p) = sectors_data
       /\ Byte(sectors_data, 4 * 8 + 1) = Byte(last.before, 4 * 8 + 1)
  /\ get_voltage(sectors_data, 1) = FFromInt(5)
  /\ (last.op = "set_current" /\ last.pdo \notin {1, 2}) =>
       /\ sectors_data = set_current(last.before, FLit(last.arg, 100), 3)
       /\ \A p \in OtherPdos :
            set_current(last.before, FLit(last.arg, 100), p) = sectors_data
  /\ \A p \in OtherPdos :
       /\ get_voltage(sectors_data, p) = get_voltage(sectors_data, 3)
       /\ get_current(sectors_data, p) = get_current(sectors_data, 3)
       /\ get_lower_voltage_limit(sectors_data, p)
            = get_lower_voltage_limit(sectors_data, 3)
       /\ get_upper_voltage_limit(sectors_data, p)
            = get_upper_voltage_limit(sectors_data, 3)

\* set_voltage was called with pdo = 1 and changed what get_voltage(3)
\* returns, and get_voltage(1) is still 5.
C19_Witness ==
  /\ last.op = "set_voltage"
  /\ last.pdo = 1
  /\ get_voltage(sectors_data, 3) # get_voltage(last.before, 3)
  /\ get_voltage(sectors_data, 2) = get_voltage(last.before, 2)
  /\ get_voltage(sectors_data, 1) = FFromInt(5)

\* C20: write_parameters and write_parameter_defaults never change the
\* buffer: while either call runs and after it has returned or raised, all
\* 40 bytes equal what they were when the call began; after a returned
\* write_parameter_defaults on a buffer that was not the default image,
\* is_factory_defaults is still false although the device holds the
\* default image.
C20_WritesKeepMirror ==
  /\ ( /\ call.kind \in {"write", "defaults"}
       /\ (Running \/ call.status = "raised" \/ fresh.kind = call.kind) ) =>
       /\ Len(sectors_data) = 8 * 5
       /\ \A k \in 0..(8 * 5 - 1) :
            Byte(sectors_data, k) = Byte(call.pre_mirror, k)
  /\ (fresh.kind = "defaults" /\ ~is_factory_defaults(call.pre_mirror)) =>
       /\ ~is_factory_defaults(sectors_data)
       /\ dev[fresh.inst].nvm = DEFAULT_NVM

\* write_parameter_defaults returned on a buffer that is not the default
\* image: the device holds the defaults, the buffer does not.
C20_Witness ==
  /\ fresh.kind = "defaults"
  /\ ~is_factory_defaults(sectors_data)
  /\ dev[fresh.inst].nvm = DEFAULT_NVM
  /\ call.pre_nvm # DEFAULT_NVM

\* C21: the driver never tries to take the bus lock while it holds it:
\* whenever a call is about to enter a `with` block, the busy-poll
\* helper's included, the lock is not held by its instance and the block
\* before it has been left; the helper's status read runs inside the block
\* the helper itself entered, with the lock held.
C21_NoReacquire ==
  /\ AtOp("acquire") =>
       /\ lock # call.inst
       /\ call.pc > 1 => Program[call.pc - 1].op = "release"
  /\ AtOp("poll") =>
       /\ lock = call.inst
       /\ Program[call.pc - 1].op = "acquire"
       /\ Program[call.pc + 1].op = "release"

\* A write call that has completed requests before is inside the
\* busy-poll helper, which has taken the lock the block before it released.
C21_Witness ==
  /\ AtOp("poll")
  /\ call.kind = "write"
  /\ lock = call.inst
  /\ Program[call.pc - 2].op = "release"
  /\ Len(SelectSeq(log, IsRequest)) > 1
====
